---- MODULE Spec2Model ----
(***************************************************************************)
(* fake-akv: the versioned secret store of src/src/fake_akv/storage.py.    *)
(* The memory backend (_mem, _deleted) and the SQLite backend (the table   *)
(* secrets) are run side by side: every action applies one Storage method  *)
(* to both with the same name, the same generated version id and the same  *)
(* clock reading.  The reading methods change no state: what they return   *)
(* is the value of their operator in the current state.  last keeps what   *)
(* the last writing call returned.                                         *)
(***************************************************************************)
EXTENDS Integers, Sequences, FiniteSets, TLC

\* ---- bounds of the model ------------------------------------------------
MaxVersions == 2
MaxTime == 1

Names == {"db-pass", "other"}

\* ---- Python values -------------------------------------------------------
\* None, and a dict as the ordered sequence of its <<key, value>> items
None == [isNone |-> TRUE]
Dict(items) == [isNone |-> FALSE, items |-> items]
EmptyDict == Dict(<<>>)
Bool(b) == [isNone |-> FALSE, bool |-> b]

\* truthiness of an optional dict: None and {} are falsy
Truthy(x) == (~x.isNone) /\ x.items # <<>>

\* x or y
PyOr(x, y) == IF Truthy(x) THEN x ELSE y

\* the request payloads CreateVersion is called with
Payloads ==
  { [value |-> "p@ss1", tags |-> None, attributes |-> None],
    [value |-> "p@ss2",
     tags |-> Dict(<< <<"env", "prod">> >>),
     attributes |-> Dict(<< <<"contentType", "text">> >>)] }

\* 86400 * 7
RetentionSeconds == 604800

\* ---- ordered dict (insertion order), a sequence of [k, v] entries -------
DictHas(d, k) == \E i \in DOMAIN d : d[i].k = k
DictIdx(d, k) == CHOOSE i \in DOMAIN d : d[i].k = k
DictGet(d, k) == d[DictIdx(d, k)].v
DictSet(d, k, v) ==
  IF DictHas(d, k) THEN [d EXCEPT ![DictIdx(d, k)].v = v]
  ELSE Append(d, [k |-> k, v |-> v])

\* ---- JSON text of a dict: a sequence of tokens ---------------------------
SqlNull == [isNull |-> TRUE]
SqlText(t) == [isNull |-> FALSE, text |-> t]

RECURSIVE JsonMembers(_)
JsonMembers(items) ==
  IF items = <<>> THEN <<>>
  ELSE << "\"", items[1][1], "\"", ":", "\"", items[1][2], "\"" >>
       \o (IF Len(items) > 1 THEN <<",">> ELSE <<>>)
       \o JsonMembers(Tail(items))

json_dumps(obj) == <<"{">> \o JsonMembers(obj.items) \o <<"}">>

\* the members between the braces, 7 tokens a member and a comma between
RECURSIVE ParseMembers(_)
ParseMembers(toks) ==
  IF Len(toks) < 7 THEN <<>>
  ELSE << <<toks[2], toks[6]>> >>
       \o ParseMembers(SubSeq(toks, 9, Len(toks)))

\* s and json.loads(s)
json_loads(s) ==
  IF s.isNull THEN None
  ELSE Dict(ParseMembers(SubSeq(s.text, 2, Len(s.text) - 1)))

\* (d and json_dumps(d)) or None
DumpOrNull(d) == IF Truthy(d) THEN SqlText(json_dumps(d)) ELSE SqlNull

sqlrow_to_dict(row) ==
  [value |-> row.value,
   tags |-> PyOr(json_loads(row.tags), EmptyDict),
   attributes |-> PyOr(json_loads(row.attributes), EmptyDict),
   enabled |-> (row.enabled # 0),
   deleted |-> (row.deleted # 0),
   created |-> row.created,
   updated |-> row.updated]

\* ---- state ---------------------------------------------------------------
VARIABLES
  mem,      \* Storage._mem: dict name -> dict version -> record
  deleted,  \* Storage._deleted: name -> deletion record, None for no entry
  rows,     \* the table secrets of the SQLite backend
  now,      \* the clock read by Storage._now
  nextId,   \* number of version ids generated so far
  last,     \* the last writing call: method, name and both return values
  task,     \* the Storage call in progress, when calls are followed step by step
  seen      \* what the last reading call met, when calls are followed step by step

vars == <<mem, deleted, rows, now, nextId, last, task, seen>>

\* no call in progress; no reading call yet
Idle == [op |-> "idle"]
NoObs == [name |-> "", partial |-> FALSE]

\* uuid4().hex: an identifier never generated before
NewVersion == nextId + 1

\* self._mem.get(name) or {}
MemVersions(m, name) == IF DictHas(m, name) THEN DictGet(m, name) ELSE <<>>

\* the rows of a name
RowsOf(rs, name) == {r \in rs : r.name = name}
LiveRowsOf(rs, name) == {r \in rs : r.name = name /\ r.deleted = 0}

\* arg: the payload of put_secret; before: what get_latest gave and the version
\* ids of the name just before a soft_delete, kept by the recover that follows it
Call(op, name, arg, m, s) ==
  [op |-> op, name |-> name, arg |-> arg, mem |-> m, sql |-> s, before |-> None]

Init ==
  /\ mem = <<>>
  /\ deleted = [n \in Names |-> None]
  /\ rows = {}
  /\ now = 0
  /\ nextId = 0
  /\ last = Call("init", "", None, None, None)
  /\ task = Idle
  /\ seen = NoObs

\* time passes; the clock does not go back
Tick ==
  /\ now < MaxTime
  /\ now' = now + 1
  /\ UNCHANGED <<mem, deleted, rows, nextId, last>>

\* ---- put_secret ----------------------------------------------------------
\* faulty variant: self._mem[name] = {version: ...}, the dict of the name replaced
put_secret_mem_replace(m, name, version, p, t) ==
  DictSet(m, name,
    << [k |-> version,
        v |-> [value |-> p.value,
               tags |-> PyOr(p.tags, EmptyDict),
               attributes |-> PyOr(p.attributes, EmptyDict),
               enabled |-> TRUE,
               deleted |-> FALSE,
               created |-> t,
               updated |-> t]] >>)

put_secret_mem(m, name, version, p, t) ==
  DictSet(m, name,
    DictSet(MemVersions(m, name), version,
      [value |-> p.value,
       tags |-> PyOr(p.tags, EmptyDict),
       attributes |-> PyOr(p.attributes, EmptyDict),
       enabled |-> TRUE,
       deleted |-> FALSE,
       created |-> t,
       updated |-> t]))

put_secret_sql(rs, name, version, p, t) ==
  rs \cup { [name |-> name,
             version |-> version,
             value |-> p.value,
             tags |-> DumpOrNull(p.tags),
             attributes |-> DumpOrNull(PyOr(p.attributes, EmptyDict)),
             enabled |-> 1,
             deleted |-> 0,
             created |-> t,
             updated |-> t] }

put_secret_result(version, p, t) ==
  [isNone |-> FALSE,
   version |-> version,
   attrs |-> [enabled |-> TRUE, created |-> t, updated |-> t,
              extra |-> PyOr(p.attributes, EmptyDict)]]

PutSecret(name, p) ==
  /\ nextId < MaxVersions
  \* the INSERT fails on a primary key that exists
  /\ ~\E r \in rows : r.name = name /\ r.version = NewVersion
  /\ mem' = put_secret_mem(mem, name, NewVersion, p, now)
  /\ rows' = put_secret_sql(rows, name, NewVersion, p, now)
  /\ nextId' = nextId + 1
  /\ last' = Call("put_secret", name, p,
                  put_secret_result(NewVersion, p, now),
                  put_secret_result(NewVersion, p, now))
  /\ UNCHANGED <<deleted, now>>

\* ---- get_latest ----------------------------------------------------------
\* max(versions.items(), key=updated): the first entry of greatest updated
PyMaxIdx(versions) ==
  CHOOSE i \in DOMAIN versions :
    /\ \A j \in DOMAIN versions : versions[j].v.updated <= versions[i].v.updated
    /\ \A j \in 1..(i - 1) : versions[j].v.updated < versions[i].v.updated

Found(version, data) == [isNone |-> FALSE, version |-> version, data |-> data]

get_latest_mem(m, name) ==
  LET versions == MemVersions(m, name) IN
  IF versions = <<>> THEN None
  ELSE Found(versions[PyMaxIdx(versions)].k, versions[PyMaxIdx(versions)].v)

\* faulty variant: SELECT ... WHERE name=:n ORDER BY created DESC LIMIT 1
get_latest_sql_any(rs, name) ==
  LET all == RowsOf(rs, name) IN
  IF all = {} THEN {None}
  ELSE { Found(r.version, sqlrow_to_dict(r)) :
           r \in {x \in all : \A y \in all : y.created <= x.created} }

\* faulty variant: ORDER BY created ASC LIMIT 1
get_latest_sql_asc(rs, name) ==
  LET live == LiveRowsOf(rs, name) IN
  IF live = {} THEN {None}
  ELSE { Found(r.version, sqlrow_to_dict(r)) :
           r \in {x \in live : \A y \in live : y.created >= x.created} }

\* ORDER BY created DESC LIMIT 1: any row of greatest created; the set of
\* the results the query can give
get_latest_sql(rs, name) ==
  LET live == LiveRowsOf(rs, name) IN
  IF live = {} THEN {None}
  ELSE { Found(r.version, sqlrow_to_dict(r)) :
           r \in {x \in live : \A y \in live : y.created <= x.created} }

GetLatest(name) ==
  /\ get_latest_mem(mem, name).isNone \in BOOLEAN
  /\ get_latest_sql(rows, name) # {}
  /\ UNCHANGED vars

\* ---- get_version ---------------------------------------------------------
\* self._mem.get(name, {}).get(version)
get_version_mem(m, name, version) ==
  IF DictHas(MemVersions(m, name), version)
  THEN [isNone |-> FALSE, data |-> DictGet(MemVersions(m, name), version)]
  ELSE None

\* faulty variant: SELECT ... WHERE name=:n AND version=:v AND deleted=0
get_version_sql_live(rs, name, version) ==
  IF \E r \in rs : r.name = name /\ r.version = version /\ r.deleted = 0
  THEN [isNone |-> FALSE,
        data |-> sqlrow_to_dict(
                   CHOOSE r \in rs : r.name = name /\ r.version = version)]
  ELSE None

get_version_sql(rs, name, version) ==
  IF \E r \in rs : r.name = name /\ r.version = version
  THEN [isNone |-> FALSE,
        data |-> sqlrow_to_dict(
                   CHOOSE r \in rs : r.name = name /\ r.version = version)]
  ELSE None

GetVersion(name, version) ==
  /\ get_version_mem(mem, name, version).isNone \in BOOLEAN
  /\ get_version_sql(rows, name, version).isNone \in BOOLEAN
  /\ UNCHANGED vars

\* ---- list_versions -------------------------------------------------------
Items(s) == [isNone |-> FALSE, items |-> s]

\* the entries of the dict that are not deleted, in the order of the dict
list_versions_mem(m, name) ==
  LET live == SelectSeq(MemVersions(m, name), LAMBDA e : ~e.v.deleted) IN
  Items([i \in DOMAIN live |-> <<live[i].k, live[i].v>>])

\* ORDER BY created DESC: every order of the live rows in which created
\* does not increase
list_versions_sql(rs, name) ==
  LET live == LiveRowsOf(rs, name)
      n == Cardinality(live)
  IN { Items([i \in 1..n |-> <<f[i].version, sqlrow_to_dict(f[i])>>]) :
         f \in { g \in [1..n -> live] :
                   /\ \A i, j \in 1..n : i # j => g[i] # g[j]
                   /\ \A i, j \in 1..n : i < j => g[i].created >= g[j].created } }

ListVersions(name) ==
  /\ list_versions_mem(mem, name).isNone \in BOOLEAN
  /\ list_versions_sql(rows, name) # {}
  /\ UNCHANGED vars

\* ---- soft_delete ---------------------------------------------------------
DeletionRecord(t) ==
  [isNone |-> FALSE, deletedDate |-> t, scheduledPurgeDate |-> t + RetentionSeconds]

\* faulty variant: the deletion record written before the check for versions
soft_delete_mem_unchecked(m, d, name, t) ==
  LET versions == MemVersions(m, name) IN
  IF versions = <<>>
  THEN [mem |-> m, deleted |-> [d EXCEPT ![name] = DeletionRecord(t)], ret |-> None]
  ELSE [mem |-> DictSet(m, name,
                  [i \in DOMAIN versions |->
                     [versions[i] EXCEPT !.v.deleted = TRUE, !.v.updated = t]]),
        deleted |-> [d EXCEPT ![name] = DeletionRecord(t)],
        ret |-> DeletionRecord(t)]

\* faulty variant: _deleted.setdefault(name, ...), the first record kept
soft_delete_mem_setdefault(m, d, name, t) ==
  LET versions == MemVersions(m, name) IN
  IF versions = <<>> THEN [mem |-> m, deleted |-> d, ret |-> None]
  ELSE LET kept == IF d[name].isNone THEN DeletionRecord(t) ELSE d[name] IN
       [mem |-> DictSet(m, name,
                  [i \in DOMAIN versions |->
                     [versions[i] EXCEPT !.v.deleted = TRUE, !.v.updated = t]]),
        deleted |-> [d EXCEPT ![name] = kept],
        ret |-> kept]

\* the new _mem, the new _deleted and the return value
soft_delete_mem(m, d, name, t) ==
  LET versions == MemVersions(m, name) IN
  IF versions = <<>> THEN [mem |-> m, deleted |-> d, ret |-> None]
  ELSE [mem |-> DictSet(m, name,
                  [i \in DOMAIN versions |->
                     [versions[i] EXCEPT !.v.deleted = TRUE, !.v.updated = t]]),
        deleted |-> [d EXCEPT ![name] = DeletionRecord(t)],
        ret |-> DeletionRecord(t)]

\* faulty variant: UPDATE ... WHERE name=:n AND deleted=0
soft_delete_sql_live_only(rs, name, t) ==
  IF Cardinality(RowsOf(rs, name)) = 0 THEN [rows |-> rs, ret |-> None]
  ELSE [rows |-> { IF r.name = name /\ r.deleted = 0
                   THEN [r EXCEPT !.deleted = 1, !.updated = t] ELSE r : r \in rs },
        ret |-> DeletionRecord(t)]

\* faulty variant: UPDATE secrets SET deleted=1, updated=:u, created=:u
soft_delete_sql_restamp(rs, name, t) ==
  IF Cardinality(RowsOf(rs, name)) = 0 THEN [rows |-> rs, ret |-> None]
  ELSE [rows |-> { IF r.name = name
                   THEN [r EXCEPT !.deleted = 1, !.updated = t, !.created = t]
                   ELSE r : r \in rs },
        ret |-> DeletionRecord(t)]

\* the new table and the return value
soft_delete_sql(rs, name, t) ==
  IF Cardinality(RowsOf(rs, name)) = 0 THEN [rows |-> rs, ret |-> None]
  ELSE [rows |-> { IF r.name = name
                   THEN [r EXCEPT !.deleted = 1, !.updated = t] ELSE r : r \in rs },
        ret |-> DeletionRecord(t)]

SoftDelete(name) ==
  LET m == soft_delete_mem(mem, deleted, name, now)
      q == soft_delete_sql(rows, name, now)
  IN /\ mem' = m.mem
     /\ deleted' = m.deleted
     /\ rows' = q.rows
     /\ \E s \in get_latest_sql(rows, name) :
          last' = [Call("soft_delete", name, None, m.ret, q.ret)
                     EXCEPT !.before = [isNone |-> FALSE,
                                        mem |-> get_latest_mem(mem, name),
                                        sql |-> s,
                                        versions |-> {r.version : r \in RowsOf(rows, name)}]]
     /\ UNCHANGED <<now, nextId>>

\* ---- get_deleted ---------------------------------------------------------
\* self._deleted.get(name)
get_deleted_mem(d, name) == d[name]

\* MIN(updated) over the deleted rows of the name, NULL when there is none
get_deleted_sql(rs, name) ==
  LET del == {r \in rs : r.name = name /\ r.deleted = 1} IN
  IF del = {} THEN None
  ELSE DeletionRecord(
         (CHOOSE r \in del : \A x \in del : r.updated <= x.updated).updated)

GetDeleted(name) ==
  /\ get_deleted_mem(deleted, name).isNone \in BOOLEAN
  /\ get_deleted_sql(rows, name).isNone \in BOOLEAN
  /\ UNCHANGED vars

\* ---- recover -------------------------------------------------------------
\* faulty variant: the loop left after the first version, the entry popped
recover_mem_first_only(m, d, name) ==
  LET versions == MemVersions(m, name) IN
  IF versions = <<>> THEN [mem |-> m, deleted |-> d, ret |-> Bool(FALSE)]
  ELSE [mem |-> DictSet(m, name,
                  [versions EXCEPT ![1] = [@ EXCEPT !.v.deleted = FALSE]]),
        deleted |-> [d EXCEPT ![name] = None],
        ret |-> Bool(TRUE)]

\* faulty variant: the entry of _deleted left in place
recover_mem_keep_entry(m, d, name) ==
  LET versions == MemVersions(m, name) IN
  IF versions = <<>> THEN [mem |-> m, deleted |-> d, ret |-> Bool(FALSE)]
  ELSE [mem |-> DictSet(m, name,
                  [i \in DOMAIN versions |->
                     [versions[i] EXCEPT !.v.deleted = FALSE]]),
        deleted |-> d,
        ret |-> Bool(TRUE)]

recover_mem(m, d, name) ==
  LET versions == MemVersions(m, name) IN
  IF versions = <<>> THEN [mem |-> m, deleted |-> d, ret |-> Bool(FALSE)]
  ELSE [mem |-> DictSet(m, name,
                  [i \in DOMAIN versions |->
                     [versions[i] EXCEPT !.v.deleted = FALSE]]),
        deleted |-> [d EXCEPT ![name] = None],
        ret |-> Bool(TRUE)]

\* faulty variant: UPDATE secrets SET deleted=0, updated=created WHERE name=:n
recover_sql_restore(rs, name) ==
  IF Cardinality({r \in rs : r.name = name /\ r.deleted = 1}) = 0
  THEN [rows |-> rs, ret |-> Bool(FALSE)]
  ELSE [rows |-> { IF r.name = name
                   THEN [r EXCEPT !.deleted = 0, !.updated = r.created]
                   ELSE r : r \in rs },
        ret |-> Bool(TRUE)]

recover_sql(rs, name) ==
  IF Cardinality({r \in rs : r.name = name /\ r.deleted = 1}) = 0
  THEN [rows |-> rs, ret |-> Bool(FALSE)]
  ELSE [rows |-> { IF r.name = name THEN [r EXCEPT !.deleted = 0] ELSE r : r \in rs },
        ret |-> Bool(TRUE)]

Recover(name) ==
  LET m == recover_mem(mem, deleted, name)
      q == recover_sql(rows, name)
  IN /\ mem' = m.mem
     /\ deleted' = m.deleted
     /\ rows' = q.rows
     /\ last' = [Call("recover", name, None, m.ret, q.ret)
                   EXCEPT !.before = IF last.op = "soft_delete" /\ last.name = name
                                     THEN last.before ELSE None]
     /\ UNCHANGED <<now, nextId>>

\* ---- list_names_latest ---------------------------------------------------
RECURSIVE NamesLatestMem(_)
NamesLatestMem(m) ==
  IF m = <<>> THEN <<>>
  ELSE (IF \A i \in DOMAIN m[1].v : m[1].v[i].v.deleted
        THEN <<>>
        ELSE << <<m[1].k, m[1].v[PyMaxIdx(m[1].v)].v>> >>)
       \o NamesLatestMem(Tail(m))

list_names_latest_mem(m) == Items(NamesLatestMem(m))

\* SELECT DISTINCT name ... WHERE deleted=0 in any order, then get_latest of
\* each name, a name without a latest record skipped
list_names_latest_sql(rs) ==
  LET visible == {r.name : r \in {x \in rs : x.deleted = 0}}
      n == Cardinality(visible)
      orders == { g \in [1..n -> visible] : \A i, j \in 1..n : i # j => g[i] # g[j] }
  IN { Items([i \in 1..n |-> <<g[i], c[g[i]].data>>]) :
         g \in orders,
         c \in { h \in [visible -> UNION {get_latest_sql(rs, x) : x \in visible}] :
                   \A x \in visible : h[x] \in get_latest_sql(rs, x) } }

ListNamesLatest ==
  /\ list_names_latest_mem(mem).isNone \in BOOLEAN
  /\ list_names_latest_sql(rows) # {}
  /\ UNCHANGED vars

\* ---- the routes of the application ----------------------------------------
\* the decorators @app.put, @app.get, @app.delete, @app.post of main.py
Routes ==
  { <<"PUT", "/secrets/{name}">>,
    <<"GET", "/secrets/{name}">>,
    <<"GET", "/secrets">>,
    <<"GET", "/secrets/{name}/versions">>,
    <<"GET", "/secrets/{name}/{version}">>,
    <<"DELETE", "/secrets/{name}">>,
    <<"GET", "/deletedsecrets/{name}">>,
    <<"POST", "/deletedsecrets/{name}/recover">>,
    <<"GET", "/">> }

\* the tags an update asks for
NewTags == {Dict(<< <<"env", "prod">> >>)}

\* the router: 404 for a path of no route, 405 for a path whose routes do
\* not take the method, else the handler of the route runs
Respond(method, path) ==
  LET allowed == {r[1] : r \in {x \in Routes : x[2] = path}} IN
  IF allowed = {} THEN [status |-> 404]
  ELSE IF method \notin allowed THEN [status |-> 405]
  ELSE [status |-> 200]

\* SecretClient.update_secret_properties(name, version, tags=...): the request
\* PATCH /secrets/{name}/{version} with the tags in its body
update_secret_properties(name, version, tags) ==
  Respond("PATCH", "/secrets/{name}/{version}")

\* the request for a version that exists; no handler runs, nothing is written
UpdateSecretProperties(name, version, tags) ==
  /\ ~get_version_mem(mem, name, version).isNone
  /\ update_secret_properties(name, version, tags).status \in Nat
  /\ UNCHANGED vars

\* every Storage call, and the update request, as one step
Next ==
  \/ Tick /\ UNCHANGED <<task, seen>>
  \/ \E name \in Names, p \in Payloads : PutSecret(name, p) /\ UNCHANGED <<task, seen>>
  \/ \E name \in Names : GetLatest(name)
  \/ \E name \in Names, version \in 1..MaxVersions : GetVersion(name, version)
  \/ \E name \in Names : ListVersions(name)
  \/ \E name \in Names : SoftDelete(name) /\ UNCHANGED <<task, seen>>
  \/ \E name \in Names : GetDeleted(name)
  \/ \E name \in Names : Recover(name) /\ UNCHANGED <<task, seen>>
  \/ ListNamesLatest
  \/ \E name \in Names, version \in 1..MaxVersions, tags \in NewTags :
       UpdateSecretProperties(name, version, tags)

Spec == Init /\ [][Next]_vars

\* ---- Storage calls followed step by step ----------------------------------
\* The handlers of main.py are coroutines (async def) of one event loop, and
\* the Storage methods they call contain no await: a call that has begun runs
\* to its return before any other handler runs.

\* faulty variant: handlers declared with def, run by the thread pool, a
\* thread switch possible between any two statements
Runnable_threadpool == TRUE

\* a handler may make the next Storage call
Runnable == task.op = "idle"

\* the call in progress on name has flipped some versions and not yet all
Partial(name) ==
  /\ task.op \in {"soft_delete", "recover"}
  /\ task.name = name
  /\ 0 < task.i
  /\ task.i < Len(MemVersions(mem, name))

LoopTick ==
  /\ Tick
  /\ UNCHANGED <<task, seen>>

LoopPut(name, p) ==
  /\ Runnable
  /\ nextId < MaxVersions
  /\ mem' = put_secret_mem(mem, name, NewVersion, p, now)
  /\ rows' = put_secret_sql(rows, name, NewVersion, p, now)
  /\ nextId' = NewVersion
  /\ UNCHANGED <<deleted, now, last, task, seen>>

\* soft_delete: the clock read, then the loop over versions.values(), then
\* the entry of _deleted; the SQLite UPDATE is one statement of one transaction
SoftDeleteBegin(name) ==
  /\ Runnable
  /\ task' = [op |-> "soft_delete", name |-> name, i |-> 0, t |-> now]
  /\ UNCHANGED <<mem, deleted, rows, now, nextId, last, seen>>

SoftDeleteStep ==
  /\ task.op = "soft_delete"
  /\ task.i < Len(MemVersions(mem, task.name))
  /\ LET versions == MemVersions(mem, task.name) IN
       mem' = DictSet(mem, task.name,
                [versions EXCEPT ![task.i + 1] =
                   [@ EXCEPT !.v.deleted = TRUE, !.v.updated = task.t]])
  /\ task' = [task EXCEPT !.i = @ + 1]
  /\ UNCHANGED <<deleted, rows, now, nextId, last, seen>>

SoftDeleteEnd ==
  /\ task.op = "soft_delete"
  /\ task.i = Len(MemVersions(mem, task.name))
  /\ deleted' = IF task.i = 0 THEN deleted
                ELSE [deleted EXCEPT ![task.name] = DeletionRecord(task.t)]
  /\ rows' = soft_delete_sql(rows, task.name, task.t).rows
  /\ task' = Idle
  /\ UNCHANGED <<mem, now, nextId, last, seen>>

\* recover: the loop over versions.values(), then _deleted.pop
RecoverBegin(name) ==
  /\ Runnable
  /\ task' = [op |-> "recover", name |-> name, i |-> 0, t |-> now]
  /\ UNCHANGED <<mem, deleted, rows, now, nextId, last, seen>>

RecoverStep ==
  /\ task.op = "recover"
  /\ task.i < Len(MemVersions(mem, task.name))
  /\ LET versions == MemVersions(mem, task.name) IN
       mem' = DictSet(mem, task.name,
                [versions EXCEPT ![task.i + 1] = [@ EXCEPT !.v.deleted = FALSE]])
  /\ task' = [task EXCEPT !.i = @ + 1]
  /\ UNCHANGED <<deleted, rows, now, nextId, last, seen>>

RecoverEnd ==
  /\ task.op = "recover"
  /\ task.i = Len(MemVersions(mem, task.name))
  /\ deleted' = IF task.i = 0 THEN deleted
                ELSE [deleted EXCEPT ![task.name] = None]
  /\ rows' = recover_sql(rows, task.name).rows
  /\ task' = Idle
  /\ UNCHANGED <<mem, now, nextId, last, seen>>

\* a handler calls get_latest, get_version, list_versions, list_names_latest
\* or get_deleted for name and reads the versions as they are now
ReadCall(name) ==
  /\ Runnable
  /\ seen' = [name |-> name, partial |-> Partial(name)]
  /\ UNCHANGED <<mem, deleted, rows, now, nextId, last, task>>

NextLoop ==
  \/ LoopTick
  \/ \E name \in Names, p \in Payloads : LoopPut(name, p)
  \/ \E name \in Names : SoftDeleteBegin(name)
  \/ SoftDeleteStep
  \/ SoftDeleteEnd
  \/ \E name \in Names : RecoverBegin(name)
  \/ RecoverStep
  \/ RecoverEnd
  \/ \E name \in Names : ReadCall(name)

SpecLoop == Init /\ [][NextLoop]_vars

\* ---- the SQLite calls followed statement by statement, with failures ------
\* Every writing method runs its statements inside "with engine.begin() as
\* conn": the block commits when it is left normally and rolls back when an
\* exception leaves it. A statement, or the commit, may raise.

\* faulty variant: engine.connect() with autocommit, nothing undone
rollback_none(rs, journal) == rs

\* the table after the rollback: as it was when the transaction began
rollback(rs, journal) == journal

\* no transaction is open
NoTx == task.op \in {"idle", "failed", "done"}

\* the table a call leaves when all its statements and its commit succeed
Applied(t) ==
  CASE t.call = "put_secret" -> put_secret_sql(t.journal, t.name, t.version, t.arg, t.t)
    [] t.call = "soft_delete" -> soft_delete_sql(t.journal, t.name, t.t).rows
    [] t.call = "recover" -> recover_sql(t.journal, t.name).rows

FailTick ==
  /\ Tick
  /\ UNCHANGED <<task, seen>>

\* the method called: version id and clock read, the transaction begun
TxBegin(call, name, p) ==
  /\ NoTx
  /\ call = "put_secret" => nextId < MaxVersions
  /\ task' = [op |-> "tx", call |-> call, name |-> name, arg |-> p,
              version |-> IF call = "put_secret" THEN NewVersion ELSE 0,
              t |-> now, journal |-> rows,
              pc |-> IF call = "put_secret" THEN "write" ELSE "select"]
  /\ nextId' = IF call = "put_secret" THEN NewVersion ELSE nextId
  /\ UNCHANGED <<mem, deleted, rows, now, last, seen>>

\* SELECT COUNT(1): nothing to change, the block is left by return
TxSelect ==
  /\ task.op = "tx"
  /\ task.pc = "select"
  /\ LET hit == IF task.call = "soft_delete"
                THEN RowsOf(rows, task.name)
                ELSE {r \in RowsOf(rows, task.name) : r.deleted = 1}
     IN task' = [task EXCEPT !.pc = IF hit = {} THEN "commit" ELSE "write"]
  /\ UNCHANGED <<mem, deleted, rows, now, nextId, last, seen>>

\* the INSERT or the UPDATE, one statement, written to the database
TxWrite ==
  /\ task.op = "tx"
  /\ task.pc = "write"
  /\ rows' = CASE task.call = "put_secret" ->
                    put_secret_sql(rows, task.name, task.version, task.arg, task.t)
               [] task.call = "soft_delete" ->
                    soft_delete_sql(rows, task.name, task.t).rows
               [] task.call = "recover" -> recover_sql(rows, task.name).rows
  /\ task' = [task EXCEPT !.pc = "commit"]
  /\ UNCHANGED <<mem, deleted, now, nextId, last, seen>>

TxCommit ==
  /\ task.op = "tx"
  /\ task.pc = "commit"
  /\ task' = [task EXCEPT !.op = "done"]
  /\ UNCHANGED <<mem, deleted, rows, now, nextId, last, seen>>

\* the statement about to run, or the commit, raises: the block rolls back
\* and the exception reaches the caller
TxFail ==
  /\ task.op = "tx"
  /\ rows' = rollback(rows, task.journal)
  /\ task' = [task EXCEPT !.op = "failed"]
  /\ UNCHANGED <<mem, deleted, now, nextId, last, seen>>

NextFail ==
  \/ FailTick
  \/ \E call \in {"put_secret", "soft_delete", "recover"}, name \in Names, p \in Payloads :
       TxBegin(call, name, p)
  \/ TxSelect
  \/ TxWrite
  \/ TxCommit
  \/ TxFail

SpecFail == Init /\ [][NextFail]_vars

\* ---- the handlers of main.py for creating and listing ---------------------
\* a value given in the query string, a JSON string, a JSON null
Str(s) == [isNone |-> FALSE, s |-> s]

\* a JSON object sent as the body: key "value" present or not, its value a
\* string or null, and the optional keys tags and attributes
JsonBody(hasValue, value, tags, attributes) ==
  [isNone |-> FALSE, hasValue |-> hasValue, value |-> value,
   tags |-> tags, attributes |-> attributes]

\* the requests PUT /secrets/{name}: body (None for no body) and the query
\* parameter value (None for not given)
PutRequests ==
  { [body |-> None, query |-> None],
    [body |-> None, query |-> Str("p@ss1")],
    [body |-> JsonBody(FALSE, None, Dict(<< <<"env", "prod">> >>), None), query |-> None],
    [body |-> JsonBody(TRUE, None, None, None), query |-> None],
    [body |-> JsonBody(TRUE, Str("p@ss2"), Dict(<< <<"env", "prod">> >>), None),
     query |-> None] }

\* the request carries no value: none in the body and none in the query
NoValue(req) ==
  /\ req.body.isNone \/ ~req.body.hasValue \/ req.body.value.isNone
  /\ req.query.isNone

\* payload: Optional[SecretCreate] = Body(default=None): no body binds None; a
\* body is validated against SecretCreate, whose field value: str is required
BindPayload(body) ==
  IF body.isNone THEN [ok |-> TRUE, payload |-> None]
  ELSE IF (~body.hasValue) \/ body.value.isNone THEN [ok |-> FALSE]
  ELSE [ok |-> TRUE, payload |-> body]

\* faulty variant: the check for "value" left out, str(None) stored
put_secret_handler_unchecked(req) ==
  LET b == BindPayload(req.body) IN
  IF b.ok /\ ~b.payload.isNone
  THEN [status |-> 200, store |-> TRUE,
        p |-> [value |-> b.payload.value.s, tags |-> b.payload.tags,
               attributes |-> b.payload.attributes]]
  ELSE [status |-> 200, store |-> TRUE,
        p |-> [value |-> IF req.query.isNone THEN "None" ELSE req.query.s,
               tags |-> None, attributes |-> None]]

\* the handler put_secret: status of the response, whether storage.put_secret
\* is called, and with what
put_secret_handler(req) ==
  LET b == BindPayload(req.body) IN
  IF ~b.ok THEN [status |-> 422, store |-> FALSE]
  ELSE IF ~b.payload.isNone
  THEN [status |-> 200, store |-> TRUE,
        p |-> [value |-> b.payload.value.s, tags |-> b.payload.tags,
               attributes |-> b.payload.attributes]]
  ELSE IF ~req.query.isNone
  THEN [status |-> 200, store |-> TRUE,
        p |-> [value |-> req.query.s, tags |-> None, attributes |-> None]]
  ELSE [status |-> 400, store |-> FALSE]

PutRequest(name, req) ==
  LET h == put_secret_handler(req)
      resp == [isNone |-> FALSE, status |-> h.status]
  IN /\ h.store => nextId < MaxVersions
     /\ mem' = IF h.store THEN put_secret_mem(mem, name, NewVersion, h.p, now) ELSE mem
     /\ rows' = IF h.store THEN put_secret_sql(rows, name, NewVersion, h.p, now) ELSE rows
     /\ nextId' = IF h.store THEN NewVersion ELSE nextId
     /\ last' = Call("put_request", name, req, resp, resp)
     /\ UNCHANGED <<deleted, now, task, seen>>

\* the tag filters a listing is asked with: tag-name and tag-value
TagFilters == { <<"env", "prod">> }

\* tags holds key k with value v
TagIs(tags, k, v) ==
  (~tags.isNone) /\ \E i \in DOMAIN tags.items : tags.items[i] = <<k, v>>

\* build_secret_properties_result: the id, and the tags when there are any
build_secret_properties_result(name, data) ==
  [id |-> name, tags |-> IF Truthy(data.tags) THEN data.tags ELSE None]

\* the handler list_secrets: every entry of list_names_latest, cut to
\* maxresults when that is given and positive; the query parameters tag-name
\* and tag-value are not parameters of the handler
list_secrets(l, tagName, tagValue, maxresults) ==
  LET items == [i \in DOMAIN l.items |->
                  build_secret_properties_result(l.items[i][1], l.items[i][2])]
  IN IF maxresults > 0 /\ maxresults < Len(items)
     THEN SubSeq(items, 1, maxresults) ELSE items

ListSecrets(tagName, tagValue, maxresults) ==
  /\ Len(list_secrets(list_names_latest_mem(mem), tagName, tagValue, maxresults)) >= 0
  /\ \A l \in list_names_latest_sql(rows) :
       Len(list_secrets(l, tagName, tagValue, maxresults)) >= 0
  /\ UNCHANGED vars

HttpTick ==
  /\ Tick
  /\ UNCHANGED <<task, seen>>

NextHttp ==
  \/ HttpTick
  \/ \E name \in Names, req \in PutRequests : PutRequest(name, req)
  \/ \E f \in TagFilters, maxresults \in 0..1 : ListSecrets(f[1], f[2], maxresults)

SpecHttp == Init /\ [][NextHttp]_vars

\* ---- list_names_latest of the SQLite backend, transaction by transaction --
\* The names are read in one transaction; get_latest then opens a transaction
\* of its own for each name. Other connections to the database commit their
\* put_secret, soft_delete and recover between any two of these.

\* a listing may begin
NoListing == task.op \in {"idle", "listed"}

\* the orders in which SELECT DISTINCT name may return the names of S
Orders(S) ==
  { g \in [1..Cardinality(S) -> S] : \A i, j \in DOMAIN g : i # j => g[i] # g[j] }

ListTick ==
  /\ Tick
  /\ UNCHANGED <<task, seen>>

\* another connection commits a put_secret, a soft_delete or a recover
OtherPut(name, p) ==
  /\ nextId < MaxVersions
  /\ rows' = put_secret_sql(rows, name, NewVersion, p, now)
  /\ nextId' = NewVersion
  /\ UNCHANGED <<mem, deleted, now, last, task, seen>>

OtherSoftDelete(name) ==
  /\ rows' = soft_delete_sql(rows, name, now).rows
  /\ UNCHANGED <<mem, deleted, now, nextId, last, task, seen>>

OtherRecover(name) ==
  /\ rows' = recover_sql(rows, name).rows
  /\ UNCHANGED <<mem, deleted, now, nextId, last, task, seen>>

\* SELECT DISTINCT name FROM secrets WHERE deleted=0
ListBegin ==
  /\ NoListing
  /\ \E g \in Orders({r.name : r \in {x \in rows : x.deleted = 0}}) :
       task' = [op |-> "list", names |-> g, out |-> <<>>, skipped |-> {}]
  /\ UNCHANGED <<mem, deleted, rows, now, nextId, last, seen>>

\* latest = self.get_latest(name) for the next name: skipped when None,
\* else (name, data) is yielded
ListStep ==
  /\ task.op = "list"
  /\ task.names # <<>>
  /\ \E s \in get_latest_sql(rows, Head(task.names)) :
       task' = IF s.isNone
               THEN [task EXCEPT !.names = Tail(@),
                                 !.skipped = @ \cup {Head(task.names)}]
               ELSE [task EXCEPT !.names = Tail(@),
                                 !.out = Append(@, <<Head(task.names), s.data>>)]
  /\ UNCHANGED <<mem, deleted, rows, now, nextId, last, seen>>

ListEnd ==
  /\ task.op = "list"
  /\ task.names = <<>>
  /\ task' = [task EXCEPT !.op = "listed"]
  /\ UNCHANGED <<mem, deleted, rows, now, nextId, last, seen>>

NextList ==
  \/ ListTick
  \/ \E name \in Names, p \in Payloads : OtherPut(name, p)
  \/ \E name \in Names : OtherSoftDelete(name)
  \/ \E name \in Names : OtherRecover(name)
  \/ ListBegin
  \/ ListStep
  \/ ListEnd

SpecList == Init /\ [][NextList]_vars

\* ---- soft_delete of the SQLite backend among other connections -------------
\* soft_delete reads the clock (now = self._now()) before it opens its
\* transaction; another connection to the same database file may commit a
\* put_secret or a recover, and the clock may move, between the two.

StampTick ==
  /\ Tick
  /\ UNCHANGED <<task, seen>>

\* now = self._now()
SoftDeleteRead(name) ==
  /\ task.op = "idle"
  /\ task' = [op |-> "stamp", name |-> name, t |-> now]
  /\ UNCHANGED <<mem, deleted, rows, now, nextId, last, seen>>

\* the transaction: SELECT COUNT(1), UPDATE ... SET deleted=1, updated=:u
SoftDeleteWrite ==
  /\ task.op = "stamp"
  /\ rows' = soft_delete_sql(rows, task.name, task.t).rows
  /\ task' = Idle
  /\ UNCHANGED <<mem, deleted, now, nextId, last, seen>>

NextStamp ==
  \/ StampTick
  \/ \E name \in Names, p \in Payloads : OtherPut(name, p)
  \/ \E name \in Names : OtherRecover(name)
  \/ \E name \in Names : SoftDeleteRead(name)
  \/ SoftDeleteWrite

SpecStamp == Init /\ [][NextStamp]_vars

\* ---- the claims ----------------------------------------------------------
\* the entries [k, v] of a name in _mem
MemRecs(m, name) == {MemVersions(m, name)[i] : i \in DOMAIN MemVersions(m, name)}

\* C1: in both backends GetLatest(name) is NotFound exactly when the name has
\* no versions or only deleted versions, and it never returns a record whose
\* deleted flag is true.
ClaimC1 ==
  \A name \in Names :
    /\ get_latest_mem(mem, name).isNone
         <=> (\A e \in MemRecs(mem, name) : e.v.deleted)
    /\ (~get_latest_mem(mem, name).isNone)
         => ~get_latest_mem(mem, name).data.deleted
    /\ \A s \in get_latest_sql(rows, name) :
         /\ s.isNone <=> (\A r \in RowsOf(rows, name) : r.deleted = 1)
         /\ (~s.isNone) => ~s.data.deleted

\* the versions of the name in the table have pairwise distinct created
DistinctCreated(name) ==
  \A r1, r2 \in RowsOf(rows, name) : r1.created = r2.created => r1 = r2

SameSecret(a, b) ==
  /\ a.isNone = b.isNone
  /\ (~a.isNone) =>
       /\ a.version = b.version
       /\ a.data.value = b.data.value
       /\ a.data.tags = b.data.tags

\* C2: for a name whose versions have distinct creation times and whose latest
\* was visible, SoftDelete(name) followed by Recover(name) leaves GetLatest(name)
\* on the same version with the same value and tags, and the version ids of the
\* name as they were.
ClaimC2 ==
  ( /\ last.op = "recover"
    /\ ~last.before.isNone
    /\ ~last.before.mem.isNone
    /\ ~last.before.sql.isNone
    /\ DistinctCreated(last.name) )
  =>
  ( /\ SameSecret(get_latest_mem(mem, last.name), last.before.mem)
    /\ \A s \in get_latest_sql(rows, last.name) : SameSecret(s, last.before.sql)
    /\ {e.k : e \in MemRecs(mem, last.name)} = last.before.versions
    /\ {r.version : r \in RowsOf(rows, last.name)} = last.before.versions )

\* the entries of a listing, as a set
ItemSet(l) == {l.items[i] : i \in DOMAIN l.items}

\* C3: the same calls give the same results in the memory backend and in the
\* relational backend (up to the order the relational backend leaves open
\* among rows of equal created, and the order of ListLatestPerName).
ClaimC3 ==
  /\ last.mem = last.sql
  /\ \A name \in Names :
       /\ get_latest_mem(mem, name) \in get_latest_sql(rows, name)
       /\ list_versions_mem(mem, name) \in list_versions_sql(rows, name)
       /\ get_deleted_mem(deleted, name) = get_deleted_sql(rows, name)
       /\ \A version \in 1..MaxVersions :
            get_version_mem(mem, name, version) = get_version_sql(rows, name, version)
  /\ \E s \in list_names_latest_sql(rows) :
       ItemSet(s) = ItemSet(list_names_latest_mem(mem))

\* a listing of exactly the given versions, each once, newest created first
NewestFirst(l, live) ==
  /\ {l.items[i][1] : i \in DOMAIN l.items} = live
  /\ Len(l.items) = Cardinality(live)
  /\ \A i, j \in DOMAIN l.items :
       i < j => l.items[i][2].created >= l.items[j][2].created

\* C4: ListVersions(name) is exactly the non-deleted versions of the name, each
\* once, ordered by created descending, and empty for a name without versions,
\* in both backends.
ClaimC4 ==
  \A name \in Names :
    /\ NewestFirst(list_versions_mem(mem, name),
                   {e.k : e \in {x \in MemRecs(mem, name) : ~x.v.deleted}})
    /\ \A s \in list_versions_sql(rows, name) :
         NewestFirst(s, {r.version : r \in LiveRowsOf(rows, name)})

\* C5: a record GetLatest(name) returns is a non-deleted version of the name
\* whose updated is at least the updated of every non-deleted version of the
\* name, in both backends.
ClaimC5 ==
  \A name \in Names :
    /\ (~get_latest_mem(mem, name).isNone) =>
         /\ \E e \in MemRecs(mem, name) :
              /\ e.k = get_latest_mem(mem, name).version
              /\ e.v = get_latest_mem(mem, name).data
              /\ ~e.v.deleted
         /\ \A e \in MemRecs(mem, name) :
              ~e.v.deleted => e.v.updated <= get_latest_mem(mem, name).data.updated
    /\ \A s \in get_latest_sql(rows, name) :
         (~s.isNone) =>
           /\ \E r \in LiveRowsOf(rows, name) :
                r.version = s.version /\ sqlrow_to_dict(r) = s.data
           /\ \A r \in LiveRowsOf(rows, name) : r.updated <= s.data.updated

\* what GetLatest gives is the version the last put_secret returned, with the
\* value and the tags passed to it (no tags read back as the empty mapping)
IsLastPut(x) ==
  /\ ~x.isNone
  /\ x.version = last.mem.version
  /\ x.version = last.sql.version
  /\ x.data.value = last.arg.value
  /\ x.data.tags = PyOr(last.arg.tags, EmptyDict)

\* every version the name had before the last put_secret has updated earlier
\* than the clock reading of that call
PutStrictlyLater ==
  /\ \A e \in MemRecs(mem, last.name) :
       e.k # last.mem.version => e.v.updated < last.mem.attrs.created
  /\ \A r \in RowsOf(rows, last.name) :
       r.version # last.sql.version => r.updated < last.sql.attrs.created

MemAll(m) ==
  UNION { {[name |-> n, version |-> e.k, data |-> e.v] : e \in MemRecs(m, n)} :
          n \in Names }

\* C7: CreateVersion returns an id the name did not have, adds exactly one
\* record with enabled=true, deleted=false and created=updated=now, and leaves
\* every record that existed, of any name, as it was.
TheoremC7 ==
  [][\A name \in Names, p \in Payloads :
       PutSecret(name, p) =>
         /\ last'.mem.version = last'.sql.version
         /\ last'.mem.version \notin {e.k : e \in MemRecs(mem, name)}
         /\ last'.sql.version \notin {r.version : r \in RowsOf(rows, name)}
         /\ MemAll(mem) \subseteq MemAll(mem')
         /\ MemAll(mem') \ MemAll(mem) =
              { [name |-> name, version |-> last'.mem.version,
                 data |-> [value |-> p.value,
                           tags |-> PyOr(p.tags, EmptyDict),
                           attributes |-> PyOr(p.attributes, EmptyDict),
                           enabled |-> TRUE, deleted |-> FALSE,
                           created |-> now, updated |-> now]] }
         /\ rows \subseteq rows'
         /\ Cardinality(rows' \ rows) = 1
         /\ \A r \in rows' \ rows :
              /\ r.name = name /\ r.version = last'.sql.version
              /\ r.value = p.value
              /\ r.enabled = 1 /\ r.deleted = 0
              /\ r.created = now /\ r.updated = now
    ]_vars

\* a CreateVersion on a name that already had a version, another name present
WitnessC7 ==
  /\ last.op = "put_secret"
  /\ \/ Len(MemVersions(mem, last.name)) >= 2
     \/ \E other \in Names \ {last.name} : RowsOf(rows, other) # {}

\* C8: SoftDelete(name) on a name with at least one version succeeds, leaves
\* every version of the name deleted with updated = now, returns a record with
\* deletedDate = now and changes no record of another name.
TheoremC8 ==
  [][\A name \in Names :
       (SoftDelete(name) /\ RowsOf(rows, name) # {} /\ MemRecs(mem, name) # {}) =>
         /\ last'.mem = DeletionRecord(now)
         /\ last'.sql = DeletionRecord(now)
         /\ last'.mem.deletedDate = now
         /\ {e.k : e \in MemRecs(mem', name)} = {e.k : e \in MemRecs(mem, name)}
         /\ \A e \in MemRecs(mem', name) : e.v.deleted /\ e.v.updated = now
         /\ {r.version : r \in RowsOf(rows', name)} = {r.version : r \in RowsOf(rows, name)}
         /\ \A r \in RowsOf(rows', name) : r.deleted = 1 /\ r.updated = now
         /\ \A other \in Names \ {name} :
              /\ MemVersions(mem', other) = MemVersions(mem, other)
              /\ RowsOf(rows', other) = RowsOf(rows, other)
    ]_vars

\* a SoftDelete that succeeded on a name that was already fully deleted, while
\* another name has a record
WitnessC8 ==
  /\ last.op = "soft_delete"
  /\ ~last.mem.isNone /\ ~last.sql.isNone
  /\ last.before.sql.isNone
  /\ \E other \in Names \ {last.name} : RowsOf(rows, other) # {}

\* C9: Recover(name) returns true exactly when at least one version of the name
\* was deleted at the time of the call, in both backends.
ClaimC9 ==
  [][\A name \in Names :
       Recover(name) =>
         /\ last'.mem.bool <=> (\E e \in MemRecs(mem, name) : e.v.deleted)
         /\ last'.sql.bool <=> (\E r \in RowsOf(rows, name) : r.deleted = 1)
    ]_vars

\* C10: SoftDelete(name) on a name without versions returns NotFound and leaves
\* the store as it was; GetDeletionRecord(name) is NotFound afterwards.
TheoremC10 ==
  [][\A name \in Names :
       (SoftDelete(name) /\ RowsOf(rows, name) = {} /\ MemRecs(mem, name) = {}) =>
         /\ last'.mem.isNone /\ last'.sql.isNone
         /\ mem' = mem /\ deleted' = deleted /\ rows' = rows
         /\ get_deleted_mem(deleted', name).isNone
         /\ get_deleted_sql(rows', name).isNone
    ]_vars

\* a SoftDelete of a name without versions has returned NotFound, while the
\* other name has a record that had to stay as it was
WitnessC10 ==
  /\ last.op = "soft_delete"
  /\ last.mem.isNone /\ last.sql.isNone
  /\ RowsOf(rows, last.name) = {}
  /\ \E other \in Names \ {last.name} : RowsOf(rows, other) # {}

\* ---- C11: the deletion record is there exactly while a version is deleted --
DeletedMem(name) == {e \in MemRecs(mem, name) : e.v.deleted}
DeletedSql(name) == {r \in RowsOf(rows, name) : r.deleted = 1}

\* C11: in both backends get_deleted(name) returns a record if and only if
\* some version of the name is flagged deleted in the present state; so it
\* returns None before any soft_delete of the name, a record right after one,
\* and None again once recover has run.
TheoremC11 ==
  \A name \in Names :
    /\ (~get_deleted_mem(deleted, name).isNone) <=> (DeletedMem(name) # {})
    /\ (~get_deleted_sql(rows, name).isNone) <=> (DeletedSql(name) # {})

\* a name soft-deleted and then recovered: the record that was there is gone
WitnessC11 ==
  /\ last.op = "recover"
  /\ ~last.before.isNone
  /\ last.before.versions # {}
  /\ last.sql.bool
  /\ get_deleted_mem(deleted, last.name).isNone
  /\ get_deleted_sql(rows, last.name).isNone

\* ---- C12: the dates of the deletion record ---------------------------------
SetMin(S) == CHOOSE x \in S : \A y \in S : x <= y

\* record r, when present, carries the least updated of the deleted versions
\* held by each backend and a purge date 604800 seconds later
DatesRight(r, name) ==
  (~r.isNone) =>
    /\ DeletedMem(name) # {}
    /\ DeletedSql(name) # {}
    /\ r.deletedDate = SetMin({e.v.updated : e \in DeletedMem(name)})
    /\ r.deletedDate = SetMin({x.updated : x \in DeletedSql(name)})
    /\ r.scheduledPurgeDate - r.deletedDate = 604800

\* C12: every record returned by get_deleted, and the record returned by the
\* soft_delete that has just run, has deletedDate equal to the least updated
\* among the versions of the name now flagged deleted, and scheduledPurgeDate
\* exactly 604800 seconds after it, in both backends.
TheoremC12 ==
  /\ \A name \in Names :
       /\ DatesRight(get_deleted_mem(deleted, name), name)
       /\ DatesRight(get_deleted_sql(rows, name), name)
  /\ (last.op = "soft_delete") =>
       /\ DatesRight(last.mem, last.name)
       /\ DatesRight(last.sql, last.name)

\* a record read while the name also holds a version created after the
\* deletion, and the deletion itself done later than the first creation
WitnessC12 ==
  \E name \in Names :
    /\ ~get_deleted_mem(deleted, name).isNone
    /\ ~get_deleted_sql(rows, name).isNone
    /\ LiveRowsOf(rows, name) # {}
    /\ get_deleted_sql(rows, name).deletedDate > 0

StillThere(a, b) ==
  (~a.isNone) =>
    /\ ~b.isNone
    /\ b.data.value = a.data.value
    /\ b.data.tags = a.data.tags
    /\ b.data.attributes = a.data.attributes
    /\ b.data.created = a.data.created

\* a record found only after the step was made by this step, a put_secret of
\* that name returning that version id
JustCreated(a, b, name, version) ==
  (a.isNone /\ ~b.isNone) =>
    /\ last'.op = "put_secret"
    /\ last'.name = name
    /\ last'.mem.version = version
    /\ last'.sql.version = version
    /\ b.data.value = last'.arg.value
    /\ ~b.data.deleted

\* C14: once put_secret(name, ...) has returned version v, get_version(name, v)
\* finds that record after every later step of any kind, deleted or not, in
\* both backends; and get_version finds nothing for a pair (name, v) that no
\* put_secret has created.
TheoremC14 ==
  [][\A name \in Names :
       \* nothing to show for a name whose versions the step leaves alone
       (\/ MemVersions(mem', name) # MemVersions(mem, name)
        \/ RowsOf(rows', name) # RowsOf(rows, name)) =>
       \A version \in 1..MaxVersions :
         LET m0 == get_version_mem(mem, name, version)
             m1 == get_version_mem(mem', name, version)
             s0 == get_version_sql(rows, name, version)
             s1 == get_version_sql(rows', name, version)
         IN /\ StillThere(m0, m1)
            /\ StillThere(s0, s1)
            /\ JustCreated(m0, m1, name, version)
            /\ JustCreated(s0, s1, name, version)]_vars

\* a soft-deleted version still found by get_version, flagged deleted, while
\* the same version id under the other name is not found
WitnessC14 ==
  \E name \in Names, other \in Names, version \in 1..MaxVersions :
    /\ other # name
    /\ ~get_version_mem(mem, name, version).isNone
    /\ ~get_version_sql(rows, name, version).isNone
    /\ get_version_mem(mem, name, version).data.deleted
    /\ get_version_sql(rows, name, version).data.deleted
    /\ get_version_mem(mem, other, version).isNone
    /\ get_version_sql(rows, other, version).isNone
    /\ last.op = "put_secret"

\* ---- C15: list_names_latest -----------------------------------------------
\* the names that have a version not flagged deleted
VisibleMem == {name \in Names : \E e \in MemRecs(mem, name) : ~e.v.deleted}
VisibleSql == {name \in Names : LiveRowsOf(rows, name) # {}}

\* list l has one entry per name of visible and no other entry
OnePerName(l, visible) ==
  /\ {l.items[i][1] : i \in DOMAIN l.items} = visible
  /\ \A i, j \in DOMAIN l.items : l.items[i][1] = l.items[j][1] => i = j

\* C15 in the memory backend
ClaimC15Mem ==
  LET l == list_names_latest_mem(mem) IN
  /\ OnePerName(l, VisibleMem)
  /\ \A i \in DOMAIN l.items :
       LET name == l.items[i][1]
           data == l.items[i][2]
       IN /\ ~data.deleted
          /\ \E e \in MemRecs(mem, name) : e.v = data
          /\ \A e \in MemRecs(mem, name) : ~e.v.deleted => e.v.updated <= data.updated
          /\ data = get_latest_mem(mem, name).data

\* C15 in the SQLite backend
ClaimC15Sql ==
  \A l \in list_names_latest_sql(rows) :
    /\ OnePerName(l, VisibleSql)
    /\ \A i \in DOMAIN l.items :
         LET name == l.items[i][1]
             data == l.items[i][2]
         IN /\ ~data.deleted
            /\ \E r \in LiveRowsOf(rows, name) : sqlrow_to_dict(r) = data
            /\ \A r \in LiveRowsOf(rows, name) : r.updated <= data.updated
            /\ \E s \in get_latest_sql(rows, name) : (~s.isNone) /\ s.data = data

\* C15: in both backends list_names_latest yields exactly one entry for every
\* name that has a version not flagged deleted and none for any other name,
\* and the record of the entry is a version of the name that is not deleted,
\* of greatest updated among those, the one get_latest(name) returns in the
\* same state; also when a name holds deleted and live versions together.
ClaimC15 == ClaimC15Mem /\ ClaimC15Sql

\* ---- C16: what a version holds does not change -----------------------------
\* C16: through every step of every Storage method a stored version keeps its
\* name, version id, value, tags, attributes and created, in both backends;
\* a step changes at most its deleted, enabled and updated fields.
TheoremC16 ==
  [][\A name \in Names :
       (\/ MemVersions(mem', name) # MemVersions(mem, name)
        \/ RowsOf(rows', name) # RowsOf(rows, name)) =>
       /\ \A e \in MemRecs(mem, name) :
            \E f \in MemRecs(mem', name) :
              /\ f.k = e.k
              /\ f.v = [e.v EXCEPT !.deleted = f.v.deleted,
                                   !.enabled = f.v.enabled,
                                   !.updated = f.v.updated]
       /\ \A r \in RowsOf(rows, name) :
            \E q \in RowsOf(rows', name) :
              /\ q.version = r.version
              /\ q = [r EXCEPT !.deleted = q.deleted,
                               !.enabled = q.enabled,
                               !.updated = q.updated]]_vars

\* a version with tags, created at one clock reading and soft-deleted at a
\* later one: updated and deleted have changed, the rest is as it was stored
WitnessC16 ==
  /\ last.op = "soft_delete"
  /\ \E e \in MemRecs(mem, last.name) :
       e.v.deleted /\ e.v.updated > e.v.created /\ e.v.tags # EmptyDict
  /\ \E r \in RowsOf(rows, last.name) :
       r.deleted = 1 /\ r.updated > r.created /\ ~r.tags.isNull

\* ---- C17: recover clears the deleted flag and nothing else ----------------
\* C17: a recover(name) that returns True leaves every version of the name
\* not deleted and equal to what it was in every other field, updated
\* included (still the reading stamped by the soft_delete before it), and
\* leaves every version of every other name as it was, in both backends.
TheoremC17 ==
  [][\A name \in Names :
       Recover(name) =>
         /\ last'.mem.bool =>
              /\ DOMAIN MemVersions(mem', name) = DOMAIN MemVersions(mem, name)
              /\ \A i \in DOMAIN MemVersions(mem, name) :
                   /\ ~MemVersions(mem', name)[i].v.deleted
                   /\ MemVersions(mem', name)[i] =
                        [MemVersions(mem, name)[i] EXCEPT !.v.deleted = FALSE]
                   /\ (last.op = "soft_delete" /\ last.name = name) =>
                        MemVersions(mem', name)[i].v.updated = last.mem.deletedDate
              /\ \A other \in Names \ {name} :
                   /\ MemVersions(mem', other) = MemVersions(mem, other)
                   /\ deleted'[other] = deleted[other]
         /\ last'.sql.bool =>
              /\ Cardinality(rows') = Cardinality(rows)
              /\ \A r \in RowsOf(rows, name) :
                   /\ [r EXCEPT !.deleted = 0] \in rows'
                   /\ (last.op = "soft_delete" /\ last.name = name) =>
                        r.updated = last.sql.deletedDate
              /\ \A q \in RowsOf(rows', name) : q.deleted = 0
              /\ \A other \in Names \ {name} : RowsOf(rows', other) = RowsOf(rows, other)]_vars

\* a name deleted later than it was created and then recovered, its version
\* live again with updated still at the reading of the deletion, while
\* another name stays deleted
WitnessC17 ==
  /\ last.op = "recover"
  /\ last.mem.bool
  /\ last.sql.bool
  /\ ~last.before.isNone
  /\ \E e \in MemRecs(mem, last.name) : ~e.v.deleted /\ e.v.updated > e.v.created
  /\ \E r \in RowsOf(rows, last.name) : r.deleted = 0 /\ r.updated > r.created
  /\ \E other \in Names \ {last.name} : DeletedMem(other) # {} /\ DeletedSql(other) # {}

\* ---- C18: put_secret on a name whose versions are all deleted -------------
\* name has versions and all of them are flagged deleted, in both backends
FullyDeleted(name) ==
  /\ MemRecs(mem, name) # {}
  /\ \A e \in MemRecs(mem, name) : e.v.deleted
  /\ RowsOf(rows, name) # {}
  /\ LiveRowsOf(rows, name) = {}

\* after the step the memory backend shows the name again, through version
RevivedMem(name, version) ==
  /\ get_latest_mem(mem', name).version = version
  /\ Len(list_versions_mem(mem', name).items) = 1
  /\ list_versions_mem(mem', name).items[1][1] = version
  /\ \E i \in DOMAIN list_names_latest_mem(mem').items :
       list_names_latest_mem(mem').items[i][1] = name
  /\ \A e \in MemRecs(mem, name) : e \in MemRecs(mem', name)
  /\ get_deleted_mem(deleted', name) = get_deleted_mem(deleted, name)
  /\ ~get_deleted_mem(deleted', name).isNone

\* the same of the SQLite backend
RevivedSql(name, version) ==
  /\ \A s \in get_latest_sql(rows', name) : (~s.isNone) /\ s.version = version
  /\ \A l \in list_versions_sql(rows', name) :
       Len(l.items) = 1 /\ l.items[1][1] = version
  /\ \A l \in list_names_latest_sql(rows') :
       \E i \in DOMAIN l.items : l.items[i][1] = name
  /\ \A r \in RowsOf(rows, name) : r \in rows'
  /\ get_deleted_sql(rows', name) = get_deleted_sql(rows, name)
  /\ ~get_deleted_sql(rows', name).isNone

\* C18: a put_secret on a name whose versions are all soft-deleted makes the
\* name visible again: get_latest returns the new version, list_versions
\* returns the new version only and list_names_latest has an entry for the
\* name; the versions from before stay flagged deleted and get_deleted still
\* returns the record, its deletedDate as before; in both backends.
ClaimC18 ==
  [][\A name \in Names, p \in Payloads :
       (FullyDeleted(name) /\ PutSecret(name, p)) =>
         /\ RevivedMem(name, last'.mem.version)
         /\ RevivedSql(name, last'.sql.version)]_vars

\* ---- C19: a call that fails leaves the store as it was --------------------
\* C19: a put_secret, soft_delete or recover that ends with a storage failure,
\* raised by any of its statements or by its commit, leaves the table exactly
\* as it was when the call began; a call that returns has applied the whole
\* of its change; no call leaves a part of it.
TheoremC19 ==
  /\ task.op = "failed" => rows = task.journal
  /\ task.op = "done" => rows = Applied(task)

\* a soft_delete of a name with two versions that failed at its commit, after
\* the UPDATE had been written
WitnessC19 ==
  /\ task.op = "failed"
  /\ task.call = "soft_delete"
  /\ task.pc = "commit"
  /\ Cardinality(LiveRowsOf(rows, task.name)) >= 2

\* ---- C20: update_secret_properties with new tags --------------------------
\* C20: for a version that exists, update_secret_properties(name, version,
\* tags=T) succeeds and returns tags T, and with the request served reading
\* the latest secret of the name gives tags T and the value it had before,
\* in both backends.
ClaimC20 ==
  \A name \in Names, version \in 1..MaxVersions, T \in NewTags :
    (~get_version_mem(mem, name, version).isNone) =>
      LET resp == update_secret_properties(name, version, T) IN
      /\ resp.status = 200
      /\ resp.tags = T
      /\ get_latest_mem(mem, name).data.tags = T
      /\ \A s \in get_latest_sql(rows, name) : (~s.isNone) /\ s.data.tags = T

\* ---- C21: listing with a tag filter ----------------------------------------
\* the listing items answers the filter k = v over the entries of l
Filtered(items, l, k, v) ==
  /\ \A i \in DOMAIN items : TagIs(items[i].tags, k, v)
  /\ \A j \in DOMAIN l.items :
       TagIs(l.items[j][2].tags, k, v) <=>
         \E i \in DOMAIN items : items[i].id = l.items[j][1]

\* C21: listing secrets with tag-name=k and tag-value=v returns items that
\* all have tags[k] = v, among them every visible name whose latest record
\* has tags[k] = v, and no name whose latest tags do not match; in both
\* backends.
ClaimC21 ==
  \A f \in TagFilters :
    /\ Filtered(list_secrets(list_names_latest_mem(mem), f[1], f[2], 0),
                list_names_latest_mem(mem), f[1], f[2])
    /\ \A l \in list_names_latest_sql(rows) :
         Filtered(list_secrets(l, f[1], f[2], 0), l, f[1], f[2])

\* ---- C22: a create request without a value ---------------------------------
\* the step leaves both stores and the id counter as they were
StoreUntouched == <<mem, deleted, rows, nextId>>' = <<mem, deleted, rows, nextId>>

\* C22 as stated: every create request that carries no value is answered 400
\* and leaves the store unchanged.
ClaimC22 ==
  [][\A name \in Names, req \in PutRequests :
       (NoValue(req) /\ PutRequest(name, req)) =>
         /\ last'.mem.status = 400
         /\ StoreUntouched]_vars

\* C22, amended: a create request that carries no value is rejected before
\* the store is called and leaves the store unchanged; the status is 400 when
\* the request has no body, and 422 when it has a JSON body whose "value" is
\* missing or null (the body fails the validation of SecretCreate and the
\* handler does not run).
TheoremC22 ==
  [][\A name \in Names, req \in PutRequests :
       (NoValue(req) /\ PutRequest(name, req)) =>
         /\ last'.mem.status = IF req.body.isNone THEN 400 ELSE 422
         /\ last'.sql.status = last'.mem.status
         /\ StoreUntouched]_vars

\* a request with a JSON body without "value" answered 422, sent to a store
\* that holds a version
WitnessC22 ==
  /\ last.op = "put_request"
  /\ NoValue(last.arg)
  /\ ~last.arg.body.isNone
  /\ last.mem.status = 422
  /\ rows # {}
  /\ mem # <<>>

\* ---- C23: the map _deleted of the memory backend ---------------------------
\* C23: in the memory backend, after any sequence of calls, _deleted has an
\* entry for a name if and only if some version of the name is flagged
\* deleted, the deletedDate of the entry is the least updated among those
\* versions, and the entry equals the record the SQLite backend derives with
\* MIN(updated) from the same history.
TheoremC23 ==
  \A name \in Names :
    LET flagged == {MemVersions(mem, name)[i].v.updated :
                      i \in {j \in DOMAIN MemVersions(mem, name) :
                               MemVersions(mem, name)[j].v.deleted}}
    IN /\ deleted[name].isNone <=> flagged = {}
       /\ (~deleted[name].isNone) =>
            \A u \in flagged : deleted[name].deletedDate <= u
       /\ (~deleted[name].isNone) => deleted[name].deletedDate \in flagged
       /\ deleted[name] = get_deleted_sql(rows, name)

\* one name deleted a second time at a later clock reading, its entry at the
\* later reading, while the other name, deleted and recovered, has no entry
WitnessC23 ==
  \E name \in Names, other \in Names :
    /\ other # name
    /\ ~deleted[name].isNone
    /\ deleted[name].deletedDate > 0
    /\ deleted[other].isNone
    /\ MemVersions(mem, other) # <<>>
    /\ \E e \in MemRecs(mem, other) : e.v.updated > e.v.created

\* ---- C24: list_names_latest of SQLite among concurrent writers -------------
\* C24: whatever put_secret, soft_delete and recover calls commit between the
\* transaction that reads the names and the transactions that look the names
\* up, every entry list_names_latest yields is a record with deleted false,
\* at most one per name, and a name that has no live version when it is
\* looked up is skipped, not yielded.
TheoremC24 ==
  task.op \in {"list", "listed"} =>
    /\ \A i \in DOMAIN task.out : ~task.out[i][2].deleted
    /\ \A i, j \in DOMAIN task.out : task.out[i][1] = task.out[j][1] => i = j
    /\ \A i \in DOMAIN task.out : task.out[i][1] \notin task.skipped

\* a listing that has ended with one name yielded and the other skipped: the
\* skipped name was visible when the names were read and is fully deleted
WitnessC24 ==
  /\ task.op = "listed"
  /\ Len(task.out) = 1
  /\ task.skipped # {}
  /\ \A name \in task.skipped : RowsOf(rows, name) # {} /\ LiveRowsOf(rows, name) = {}

\* ---- C25: created is never later than updated -------------------------------
\* C25: with a clock that does not go back, every stored record of both
\* backends has created <= updated in every reachable state, whatever the
\* interleaving of concurrent put_secret, soft_delete and recover calls.
ClaimC25 ==
  /\ \A r \in rows : r.created <= r.updated
  /\ \A name \in Names : \A e \in MemRecs(mem, name) : e.v.created <= e.v.updated

====
